---- MODULE Spec2Model ----
(***************************************************************************)
(* Model of data_generation.py: random_date(start_days_ago) and            *)
(* generate_orders(filename, num_orders), which writes a header and        *)
(* num_orders rows of fake orders to a CSV file and prints a confirmation. *)
(*                                                                         *)
(* Text is modelled as a sequence of one-character strings, a CSV line as  *)
(* the sequence of its fields, a file as the sequence of its lines.        *)
(* Amounts are integers: a raw draw counts thousandths, a rounded amount   *)
(* counts hundredths.  Dates are proleptic Gregorian ordinals, as in       *)
(* Python's datetime (day 1 is 0001-01-01).                                *)
(***************************************************************************)
EXTENDS Integers, Sequences, FiniteSets, TLC

VARIABLES
    pc,          \* position of the call
    filename,    \* argument of generate_orders
    num_orders,  \* argument of generate_orders
    pathOk,      \* environment: whether open(filename, 'w') can succeed
    disk,        \* the destination file: [exists, lines]
    buf,         \* lines written through the handle and not yet flushed
    handle,      \* "none", "open" or "closed"
    i,           \* loop variable of generate_orders
    stdout,      \* lines printed
    now,         \* the clock: ordinal of the current local date
    ioFailed,    \* an I/O operation of the call has failed
    arg,         \* argument of the expression evaluated on its own
    ret          \* its result

vars == <<pc, filename, num_orders, pathOk, disk, buf, handle, i, stdout,
          now, ioFailed, arg, ret>>

None == "none"

-----------------------------------------------------------------------------
(* Bounds of the model *)

\* generate_orders is called with num_orders in MinOrders..MaxOrders
MaxOrders == 2
\* sequence numbers formatted on their own run over 1..MaxSeq
MaxSeq == 10001
\* random_date is called on TodayFirst..TodayFirst+TodaySpan
\* (738855 is 2023-12-01; the span crosses 2024-02-29 and two year ends)
TodayFirst == 738855
TodaySpan == 420

-----------------------------------------------------------------------------
(* Program constants *)

statuses ==
    << <<"c", "o", "n", "f", "i", "r", "m", "e", "d">>,
       <<"s", "h", "i", "p", "p", "e", "d">>,
       <<"p", "e", "n", "d", "i", "n", "g">>,
       <<"c", "a", "n", "c", "e", "l", "l", "e", "d">> >>

customers ==
    << <<"A", "l", "i", "c", "e">>,
       <<"B", "o", "b">>,
       <<"C", "h", "a", "r", "l", "i", "e">>,
       <<"D", "i", "a", "n", "a">>,
       <<"E", "v", "e">> >>

DefaultDaysAgo == 90
DefaultNumOrders == 200
DefaultFilename == "orders.csv"
IdWidth == 4
AmountLow == 10
AmountHigh == 500
AmountDigits == 2

Header ==
    << <<"O", "r", "d", "e", "r", "I", "D">>,
       <<"C", "u", "s", "t", "o", "m", "e", "r">>,
       <<"A", "m", "o", "u", "n", "t">>,
       <<"S", "t", "a", "t", "u", "s">>,
       <<"O", "r", "d", "e", "r", "D", "a", "t", "e">> >>

-----------------------------------------------------------------------------
(* Decimal text *)

DigitChars == <<"0", "1", "2", "3", "4", "5", "6", "7", "8", "9">>

IsDigit(c) == \E d \in 1..10 : DigitChars[d] = c

DigitValue(c) == (CHOOSE d \in 1..10 : DigitChars[d] = c) - 1

RECURSIVE Digits(_)
\* str(n) for n >= 0
Digits(n) ==
    IF n < 10 THEN <<DigitChars[n + 1]>>
    ELSE Append(Digits(n \div 10), DigitChars[(n % 10) + 1])

RECURSIVE PadZero(_, _)
\* the format spec 0<w>: zero fill on the left up to a minimum width w
PadZero(s, w) == IF Len(s) >= w THEN s ELSE PadZero(<<"0">> \o s, w)

RECURSIVE ParseNat(_)
\* int(s) for a sequence of decimal digits
ParseNat(s) ==
    IF Len(s) = 0 THEN 0
    ELSE 10 * ParseNat(SubSeq(s, 1, Len(s) - 1)) + DigitValue(s[Len(s)])

AllDigits(s) == \A k \in 1..Len(s) : IsDigit(s[k])

IntStr(n) == IF n < 0 THEN <<"-">> \o Digits(-n) ELSE Digits(n)

-----------------------------------------------------------------------------
(* The fields of a row *)

\* mutant: the loop counted from 0, f"O{i - 1:04}"
FormatOrderIdFromZero(seq) == <<"O">> \o PadZero(Digits(seq - 1), IdWidth)

\* mutant: the width left out, f"O{i}"
FormatOrderIdUnpadded(seq) == <<"O">> \o Digits(seq)

\* f"O{i:04}"
FormatOrderId(seq) == <<"O">> \o PadZero(Digits(seq), IdWidth)

\* random.choice(s): s[k] for a drawn position k (counted from 1 here)
Choice(s, k) == s[k]

ChoiceDraws(s) == 1..Len(s)

\* thousandths per unit: one decimal more than round() keeps
Scale == 10 ^ (AmountDigits + 1)

\* random.uniform(a, b) is a + (b - a) * random.random(); the draw u counts
\* thousandths of the distance covered, 0 <= u <= (b - a) * Scale (the end
\* point b is reached by floating-point rounding)
Uniform(a, b, u) == a * Scale + u

UniformDraws(a, b) == 0..((b - a) * Scale)

\* round(x, 2) on a raw amount in thousandths: the results in hundredths.
\* A raw amount that reads ...5 in thousandths stands for floats just below
\* and just above the tie (and, when exactly representable, the tie itself,
\* which rounds half to even): both neighbours can result.
Round2(raw) ==
    IF raw % 10 = 5 THEN {raw \div 10, (raw \div 10) + 1}
    ELSE {(raw + 5) \div 10}

\* mutant: the amount written as by '%g', which drops a zero fraction
FormatFloatGeneral(c) ==
    LET whole == c \div 100
        frac == c % 100
    IN  IF frac = 0 THEN Digits(whole)
        ELSE Digits(whole) \o <<".">> \o
             (IF frac % 10 = 0 THEN Digits(frac \div 10)
              ELSE PadZero(Digits(frac), 2))

\* repr(float) of an amount in hundredths, as csv writes a float: the
\* shortest decimal text that reads back the same, with at least one decimal
FormatFloat(c) ==
    LET whole == c \div 100
        frac == c % 100
    IN  Digits(whole) \o <<".">> \o
        (IF frac % 10 = 0 THEN Digits(frac \div 10)
         ELSE PadZero(Digits(frac), 2))

-----------------------------------------------------------------------------
(* Dates: datetime's ordinal arithmetic and strftime('%Y-%m-%d') *)

DaysInMonth == <<31, 28, 31, 30, 31, 30, 31, 31, 30, 31, 30, 31>>

DaysBeforeMonth == <<0, 31, 59, 90, 120, 151, 181, 212, 243, 273, 304, 334>>

\* datetime._ord2ymd: ordinal -> <<year, month, day>>
Ord2Ymd(n) ==
    LET n0 == n - 1
        n400 == n0 \div 146097
        r400 == n0 % 146097
        n100 == r400 \div 36524
        r100 == r400 % 36524
        n4 == r100 \div 1461
        r4 == r100 % 1461
        n1 == r4 \div 365
        r1 == r4 % 365
        year == n400 * 400 + 1 + n100 * 100 + n4 * 4 + n1
        leap == n1 = 3 /\ (n4 # 24 \/ n100 = 3)
        month == (r1 + 50) \div 32
        preceding == DaysBeforeMonth[month]
                     + (IF month > 2 /\ leap THEN 1 ELSE 0)
        prevLen == DaysInMonth[month - 1]
                   + (IF month - 1 = 2 /\ leap THEN 1 ELSE 0)
    IN  IF n1 = 4 \/ n100 = 4 THEN <<year - 1, 12, 31>>
        ELSE IF preceding > r1
             THEN <<year, month - 1, r1 - (preceding - prevLen) + 1>>
             ELSE <<year, month, r1 - preceding + 1>>

\* strftime('%Y-%m-%d')
FormatDate(n) ==
    LET ymd == Ord2Ymd(n)
    IN  PadZero(Digits(ymd[1]), 4) \o <<"-">> \o PadZero(Digits(ymd[2]), 2)
        \o <<"-">> \o PadZero(Digits(ymd[3]), 2)

\* mutant: the days added instead of subtracted
RandomDateAhead(today, days_ago) == FormatDate(today + days_ago)

\* random_date: (datetime.now() - timedelta(days=days_ago)).strftime(...)
RandomDate(today, days_ago) == FormatDate(today - days_ago)

\* random.randint(0, start_days_ago)
DaysAgoDraws(start_days_ago) == 0..start_days_ago

-----------------------------------------------------------------------------
(* Rows and lines *)

\* mutant: customer and status change places
MakeRowSwapped(seq, customer, amount, status, date) ==
    <<FormatOrderId(seq), status, amount, customer, date>>

\* the list built at lines 47-53, the amount still a number (hundredths)
MakeRow(seq, customer, amount, status, date) ==
    <<FormatOrderId(seq), customer, amount, status, date>>

\* csv.writer.writerow on that list: strings pass, the float is written by
\* its repr; no generated field needs quoting
CsvLine(row) == <<row[1], row[2], FormatFloat(row[3]), row[4], row[5]>>

\* print(f"Generated {num_orders} fake orders to {filename}")
Message(n, f) == [count |-> IntStr(n), file |-> f]

-----------------------------------------------------------------------------
(* Inputs *)

NumOrdersInputs == (-1)..MaxOrders

BadPath == "missing_dir/orders.csv"

Filenames == {DefaultFilename, BadPath}

\* content left in the destination by an earlier program: longer than
\* anything a bounded call writes
StaleLine == << <<"s", "t", "a", "l", "e">> >>

StaleLines == [k \in 1..(MaxOrders + 2) |-> StaleLine]

PriorContents ==
    { [exists |-> FALSE, lines |-> <<>>],
      [exists |-> TRUE, lines |-> StaleLines] }

\* 2024-03-01: ninety days back crosses a leap day and a year end
RunToday == TodayFirst + 91

\* positions random.choice draws (first and last of each list)
CustomerDraws == {1, Len(customers)}

StatusDraws == {1, Len(statuses)}

\* draws of random.uniform: 10.000, a tie 12.505, and the end point 500.000
AmountDraws == {0, 2505, (AmountHigh - AmountLow) * Scale}

\* draws of random.randint(0, 90): both ends
DayDraws == {0, DefaultDaysAgo}

-----------------------------------------------------------------------------
(* generate_orders *)

NoExpr == arg = None /\ ret = None

Init ==
    /\ pc = "open"
    /\ filename \in Filenames
    /\ num_orders \in NumOrdersInputs
    /\ pathOk \in BOOLEAN
    /\ disk \in PriorContents
    /\ filename = BadPath => (~pathOk /\ ~disk.exists)
    /\ buf = <<>>
    /\ handle = None
    /\ i = 0
    /\ stdout = <<>>
    /\ now = RunToday
    /\ ioFailed = FALSE
    /\ NoExpr

\* mutant: opened with mode 'a', which keeps what the file held
OpenOkAppend ==
    /\ pc = "open"
    /\ pathOk
    /\ disk' = [exists |-> TRUE, lines |-> disk.lines]
    /\ buf' = <<>>
    /\ handle' = "open"
    /\ pc' = "header"
    /\ UNCHANGED <<filename, num_orders, pathOk, i, stdout, now, ioFailed,
                   arg, ret>>

\* open(filename, 'w', newline=''): creates or truncates
OpenOk ==
    /\ pc = "open"
    /\ pathOk
    /\ disk' = [exists |-> TRUE, lines |-> <<>>]
    /\ buf' = <<>>
    /\ handle' = "open"
    /\ pc' = "header"
    /\ UNCHANGED <<filename, num_orders, pathOk, i, stdout, now, ioFailed,
                   arg, ret>>

\* open raises OSError: nothing was opened, the exception leaves the call
OpenFail ==
    /\ pc = "open"
    /\ ~pathOk
    /\ ioFailed' = TRUE
    /\ pc' = "raised"
    /\ UNCHANGED <<filename, num_orders, pathOk, disk, buf, handle, i,
                   stdout, now, arg, ret>>

\* file.write(line) through the buffered handle: the line joins the buffer,
\* and the buffer is written out when it fills (flush) or stays pending
Write(line, flush) ==
    IF flush
    THEN /\ disk' = [disk EXCEPT !.lines = disk.lines \o buf \o <<line>>]
         /\ buf' = <<>>
    ELSE /\ buf' = Append(buf, line)
         /\ disk' = disk

\* writer.writerow(['OrderID', ...]); then the loop starts at 1
WriteHeader ==
    /\ pc = "header"
    /\ \E flush \in BOOLEAN : Write(Header, flush)
    /\ i' = 1
    /\ pc' = "loop"
    /\ UNCHANGED <<filename, num_orders, pathOk, handle, stdout, now,
                   ioFailed, arg, ret>>

\* one iteration of for i in range(1, num_orders + 1); of the values random
\* can draw, those in C, A, S and D are tried
WriteRow(C, A, S, D) ==
    /\ pc = "loop"
    /\ i <= num_orders
    /\ \E c \in C \cap ChoiceDraws(customers),
          u \in A \cap UniformDraws(AmountLow, AmountHigh),
          s \in S \cap ChoiceDraws(statuses),
          d \in D \cap DaysAgoDraws(DefaultDaysAgo),
          flush \in BOOLEAN :
         \E amount \in Round2(Uniform(AmountLow, AmountHigh, u)) :
            Write(CsvLine(MakeRow(i, Choice(customers, c), amount,
                                  Choice(statuses, s), RandomDate(now, d))),
                  flush)
    /\ i' = i + 1
    /\ UNCHANGED <<pc, filename, num_orders, pathOk, handle, stdout, now,
                   ioFailed, arg, ret>>

\* mutant: the OSError is caught around the with block and dropped, so the
\* call goes on to print
WriteFailSwallowed ==
    /\ \/ pc = "header"
       \/ pc = "loop" /\ i <= num_orders
    /\ \E saved \in BOOLEAN :
         disk' = IF saved THEN [disk EXCEPT !.lines = disk.lines \o buf]
                 ELSE disk
    /\ buf' = <<>>
    /\ handle' = "closed"
    /\ ioFailed' = TRUE
    /\ pc' = "print"
    /\ UNCHANGED <<filename, num_orders, pathOk, i, stdout, now, arg, ret>>

\* mutant: the file opened without a with block and closed only after the
\* loop, so an OSError leaves the handle open
WriteFailLeaked ==
    /\ \/ pc = "header"
       \/ pc = "loop" /\ i <= num_orders
    /\ ioFailed' = TRUE
    /\ pc' = "raised"
    /\ UNCHANGED <<filename, num_orders, pathOk, disk, buf, handle, i,
                   stdout, now, arg, ret>>

\* a writerow raises OSError (the device is full, the medium fails): the
\* with block is left, which closes the handle; the close writes the pending
\* buffer out if it still can (saved) and drops it otherwise; the exception
\* leaves the call
WriteFail ==
    /\ \/ pc = "header"
       \/ pc = "loop" /\ i <= num_orders
    /\ \E saved \in BOOLEAN :
         disk' = IF saved THEN [disk EXCEPT !.lines = disk.lines \o buf]
                 ELSE disk
    /\ buf' = <<>>
    /\ handle' = "closed"
    /\ ioFailed' = TRUE
    /\ pc' = "raised"
    /\ UNCHANGED <<filename, num_orders, pathOk, i, stdout, now, arg, ret>>

\* the loop is exhausted and the with block ends: flush and close
CloseOk ==
    /\ pc = "loop"
    /\ i > num_orders
    /\ disk' = [disk EXCEPT !.lines = disk.lines \o buf]
    /\ buf' = <<>>
    /\ handle' = "closed"
    /\ pc' = "print"
    /\ UNCHANGED <<filename, num_orders, pathOk, i, stdout, now, ioFailed,
                   arg, ret>>

\* the flush of the final close raises OSError: the handle is closed all the
\* same, the pending lines are lost, the exception leaves the call
CloseFail ==
    /\ pc = "loop"
    /\ i > num_orders
    /\ buf # <<>>
    /\ buf' = <<>>
    /\ handle' = "closed"
    /\ ioFailed' = TRUE
    /\ pc' = "raised"
    /\ UNCHANGED <<filename, num_orders, pathOk, disk, i, stdout, now, arg,
                   ret>>

\* mutant: the print indented into the with block, after the loop
PrintInsideWith ==
    /\ pc = "loop"
    /\ i > num_orders
    /\ stdout = <<>>
    /\ stdout' = Append(stdout, Message(num_orders, filename))
    /\ UNCHANGED <<pc, filename, num_orders, pathOk, disk, buf, handle, i,
                   now, ioFailed, arg, ret>>

\* print(f"Generated {num_orders} fake orders to {filename}")
PrintConfirmation ==
    /\ pc = "print"
    /\ stdout' = Append(stdout, Message(num_orders, filename))
    /\ pc' = "done"
    /\ UNCHANGED <<filename, num_orders, pathOk, disk, buf, handle, i, now,
                   ioFailed, arg, ret>>

Next ==
    \/ OpenOk
    \/ OpenFail
    \/ WriteHeader
    \/ WriteRow(CustomerDraws, AmountDraws, StatusDraws, DayDraws)
    \/ WriteFail
    \/ CloseOk
    \/ CloseFail
    \/ PrintConfirmation

\* generate_orders(filename, num_orders) called with any arguments
Spec == Init /\ [][Next]_vars

-----------------------------------------------------------------------------
(* The program run: the module ends with generate_orders() *)

\* line 59 calls with the defaults; the bounded calls stand beside it.  The
\* control flow does not depend on what random draws, so each draw is one
\* fixed value here, which keeps a run of 200 rows within reach.
InitRun ==
    /\ pc = "open"
    /\ \/ filename = DefaultFilename /\ num_orders = DefaultNumOrders
       \/ filename \in Filenames /\ num_orders \in NumOrdersInputs
    /\ pathOk \in BOOLEAN
    /\ disk \in PriorContents
    /\ filename = BadPath => (~pathOk /\ ~disk.exists)
    /\ buf = <<>>
    /\ handle = None
    /\ i = 0
    /\ stdout = <<>>
    /\ now = RunToday
    /\ ioFailed = FALSE
    /\ NoExpr

NextRun ==
    \/ OpenOk
    \/ OpenFail
    \/ WriteHeader
    \/ WriteRow({1}, {0}, {1}, {0})
    \/ WriteFail
    \/ CloseOk
    \/ CloseFail
    \/ PrintConfirmation

SpecRun == InitRun /\ [][NextRun]_vars

-----------------------------------------------------------------------------
(* Expressions evaluated on their own *)

NoCall ==
    /\ filename = DefaultFilename
    /\ num_orders = 0
    /\ pathOk = TRUE
    /\ disk = [exists |-> FALSE, lines |-> <<>>]
    /\ buf = <<>>
    /\ handle = None
    /\ i = 0
    /\ stdout = <<>>
    /\ ioFailed = FALSE

\* sequence numbers a second row of the same run can carry
OtherSeqs == {1, 10 ^ (IdWidth - 1), 10 ^ IdWidth}

\* f"O{i:04}" for the sequence numbers of two rows of one run
InitId ==
    /\ pc = "id_call"
    /\ arg \in [seq : 1..MaxSeq, other : OtherSeqs]
    /\ ret = None
    /\ now = RunToday
    /\ NoCall

FormatIds ==
    /\ pc = "id_call"
    /\ ret' = [seq |-> FormatOrderId(arg.seq),
               other |-> FormatOrderId(arg.other)]
    /\ pc' = "id_ret"
    /\ UNCHANGED <<filename, num_orders, pathOk, disk, buf, handle, i,
                   stdout, now, ioFailed, arg>>

NextId == FormatIds

SpecId == InitId /\ [][NextId]_vars

\* arguments random_date is called with; generate_orders passes the default
StartInputs == {0, 1, 31, DefaultDaysAgo}

InitDate ==
    /\ pc = "date_call"
    /\ arg \in StartInputs
    /\ ret = None
    /\ now \in TodayFirst..(TodayFirst + TodaySpan)
    /\ NoCall

\* random_date(start_days_ago)
RandomDateCall ==
    /\ pc = "date_call"
    /\ \E days_ago \in DaysAgoDraws(arg) : ret' = RandomDate(now, days_ago)
    /\ pc' = "date_ret"
    /\ UNCHANGED <<filename, num_orders, pathOk, disk, buf, handle, i,
                   stdout, now, ioFailed, arg>>

NextDate == RandomDateCall

SpecDate == InitDate /\ [][NextDate]_vars

-----------------------------------------------------------------------------
(* Reading the file back *)

\* the lines written through the handle so far, flushed or pending
Written == disk.lines \o buf

Opened == handle # None

Range(s) == {s[k] : k \in 1..Len(s)}

IsPrefix(s, t) == Len(s) <= Len(t) /\ SubSeq(t, 1, Len(s)) = s

IsOrderIdText(s) == Len(s) >= 2 /\ s[1] = "O" /\ AllDigits(Tail(s))

OrderIdNumber(s) == ParseNat(Tail(s))

DotPositions(s) == {k \in 1..Len(s) : s[k] = "."}

DotPos(s) == CHOOSE k \in DotPositions(s) : TRUE

\* digits, one decimal point, digits
IsAmountText(s) ==
    /\ Cardinality(DotPositions(s)) = 1
    /\ DotPos(s) > 1
    /\ DotPos(s) < Len(s)
    /\ AllDigits(SubSeq(s, 1, DotPos(s) - 1))
    /\ AllDigits(SubSeq(s, DotPos(s) + 1, Len(s)))

Decimals(s) == Len(s) - DotPos(s)

\* the number an amount text denotes, in units of 10^-Decimals(s)
AmountUnits(s) ==
    ParseNat(SubSeq(s, 1, DotPos(s) - 1)) * (10 ^ Decimals(s))
    + ParseNat(SubSeq(s, DotPos(s) + 1, Len(s)))

\* AmountLow <= amount <= AmountHigh
AmountInRange(s) ==
    /\ AmountLow * (10 ^ Decimals(s)) <= AmountUnits(s)
    /\ AmountUnits(s) <= AmountHigh * (10 ^ Decimals(s))

IsLeap(y) == y % 4 = 0 /\ (y % 100 # 0 \/ y % 400 = 0)

MonthLength(y, m) ==
    IF m = 2 THEN (IF IsLeap(y) THEN 29 ELSE 28)
    ELSE IF m \in {4, 6, 9, 11} THEN 30 ELSE 31

RECURSIVE DaysBefore(_, _)
DaysBefore(y, m) ==
    IF m = 1 THEN 0 ELSE DaysBefore(y, m - 1) + MonthLength(y, m - 1)

\* the calendar's own count of days up to y-m-d
Ymd2Ord(y, m, d) ==
    365 * (y - 1) + ((y - 1) \div 4) - ((y - 1) \div 100)
    + ((y - 1) \div 400) + DaysBefore(y, m) + d

DateYear(s) == ParseNat(SubSeq(s, 1, 4))

DateMonth(s) == ParseNat(SubSeq(s, 6, 7))

DateDay(s) == ParseNat(SubSeq(s, 9, 10))

\* YYYY-MM-DD naming a day of the calendar
IsIsoDate(s) ==
    /\ Len(s) = 10
    /\ s[5] = "-"
    /\ s[8] = "-"
    /\ AllDigits(SubSeq(s, 1, 4))
    /\ AllDigits(SubSeq(s, 6, 7))
    /\ AllDigits(SubSeq(s, 9, 10))
    /\ DateMonth(s) \in 1..12
    /\ DateDay(s) \in 1..MonthLength(DateYear(s), DateMonth(s))

ParseDate(s) == Ymd2Ord(DateYear(s), DateMonth(s), DateDay(s))

\* int(s) for an optional minus sign and digits
ParseInt(s) == IF s[1] = "-" THEN 0 - ParseNat(Tail(s)) ELSE ParseNat(s)

RowsDue == IF num_orders > 0 THEN num_orders ELSE 0

-----------------------------------------------------------------------------
(* Claims *)

\* C1: when generate_orders(filename, N) with N >= 0 has completed without
\* an I/O error, the file holds exactly N + 1 lines: the header first, then
\* N data rows, and nothing of what the file held before.
C1_FileIsHeaderPlusRows ==
    (pc = "done" /\ num_orders >= 0) =>
        /\ disk.exists
        /\ Len(disk.lines) = num_orders + 1
        /\ disk.lines[1] = Header
        /\ \A k \in 2..Len(disk.lines) :
              /\ Len(disk.lines[k]) = Len(Header)
              /\ disk.lines[k] # Header
              /\ IsOrderIdText(disk.lines[k][1])
        /\ \A k \in 1..Len(disk.lines) : disk.lines[k] # StaleLine

\* C1 witness: a call for the largest bounded N has completed and the file
\* holds the header and N rows.
C1_Witness ==
    /\ pc = "done"
    /\ num_orders = MaxOrders
    /\ Len(disk.lines) = MaxOrders + 1

\* C2: the OrderID of the k-th data row is built from sequence number k: at
\* every moment the rows written so far carry 1, 2, 3, ... in that order
\* (strictly increasing, no duplicate, no gap), and a completed call has
\* written exactly the rows 1..N.
C2_OrderIdsAreSequence ==
    Opened =>
        /\ \A k \in 2..Len(Written) :
              /\ IsOrderIdText(Written[k][1])
              /\ OrderIdNumber(Written[k][1]) = k - 1
        /\ \A j, k \in 2..Len(Written) :
              j < k => /\ Written[j][1] # Written[k][1]
                       /\ OrderIdNumber(Written[j][1])
                            < OrderIdNumber(Written[k][1])
        /\ pc = "done" => Len(disk.lines) = RowsDue + 1

\* C2 witness: a completed call whose last row carries sequence number N,
\* for N of at least 2.
C2_Witness ==
    /\ pc = "done"
    /\ num_orders >= 2
    /\ Len(disk.lines) = num_orders + 1
    /\ OrderIdNumber(disk.lines[num_orders + 1][1]) = num_orders

\* C3 as stated: every OrderID is "O" followed by exactly 4 decimal digits,
\* and two rows of one run never share an OrderID.
C3_ExactlyFourDigits ==
    pc = "id_ret" =>
        /\ ret.seq[1] = "O"
        /\ AllDigits(Tail(ret.seq))
        /\ Len(ret.seq) = 1 + IdWidth
        /\ arg.seq # arg.other => ret.seq # ret.other

\* C3 as amended: every OrderID is "O" followed by the decimal digits of the
\* sequence number, zero-padded to at least 4 digits: exactly 4 digits for
\* sequence numbers up to 9999, every digit of the number (5 or more) from
\* 10000 on; the digits read back as the sequence number, and two rows of
\* one run never share an OrderID.
C3_AtLeastFourDigits ==
    pc = "id_ret" =>
        /\ ret.seq[1] = "O"
        /\ AllDigits(Tail(ret.seq))
        /\ OrderIdNumber(ret.seq) = arg.seq
        /\ arg.seq < 10 ^ IdWidth => Len(ret.seq) = 1 + IdWidth
        /\ arg.seq >= 10 ^ IdWidth =>
              /\ Len(ret.seq) > 1 + IdWidth
              /\ ret.seq[2] # "0"
        /\ arg.seq # arg.other => ret.seq # ret.other

\* C3 witness: sequence number 10000 has been formatted to "O" and five
\* digits, beside a row of the same run that has four.
C3_Witness ==
    /\ pc = "id_ret"
    /\ arg.seq = 10 ^ IdWidth
    /\ Len(ret.seq) = 2 + IdWidth
    /\ Len(ret.other) = 1 + IdWidth

\* C4 as stated: the Amount of every data row, as written in the file, has
\* exactly 2 decimal places and lies between 10 and 500.
C4_ExactlyTwoDecimals ==
    Opened =>
        \A k \in 2..Len(Written) :
            /\ IsAmountText(Written[k][3])
            /\ Decimals(Written[k][3]) = AmountDigits
            /\ AmountInRange(Written[k][3])

\* C4 as amended: the Amount of every data row, as written in the file, is
\* a decimal number with at least 1 and at most 2 decimal places (the value
\* is rounded to 2 places and written without a trailing zero beyond the
\* first decimal), and lies between 10 and 500.
C4_AtMostTwoDecimals ==
    Opened =>
        \A k \in 2..Len(Written) :
            /\ IsAmountText(Written[k][3])
            /\ Decimals(Written[k][3]) \in 1..AmountDigits
            /\ Decimals(Written[k][3]) = AmountDigits =>
                  Written[k][3][Len(Written[k][3])] # "0"
            /\ AmountInRange(Written[k][3])

\* C4 witness: a completed call has left a row whose Amount is written with
\* one decimal place and a row whose Amount is written with two.
C4_Witness ==
    /\ pc = "done"
    /\ \E j, k \in 2..Len(disk.lines) :
          /\ Decimals(disk.lines[j][3]) = 1
          /\ Decimals(disk.lines[k][3]) = AmountDigits

\* C5: random_date(maxDaysAgo) returns the date today - d for some integer
\* d with 0 <= d <= maxDaysAgo, today being the date of the clock at the
\* call: a YYYY-MM-DD text naming a day of the calendar, never after today,
\* and, with the 90 that generate_orders uses, never before today - 90.
C5_DateWithinWindow ==
    pc = "date_ret" =>
        /\ IsIsoDate(ret)
        /\ LET date == ParseDate(ret)
           IN  /\ now - date \in 0..arg
               /\ date <= now
               /\ arg = DefaultDaysAgo => now - DefaultDaysAgo <= date

\* C5 witness: random_date(90) has returned the earliest date it can,
\* today - 90.
C5_Witness ==
    /\ pc = "date_ret"
    /\ arg = DefaultDaysAgo
    /\ IsIsoDate(ret)
    /\ ParseDate(ret) = now - DefaultDaysAgo

\* C6: in every data row the fields stand in the order OrderID, Customer,
\* Amount, Status, OrderDate; Customer is one of the 5 names and Status one
\* of the 4 statuses.
C6_VocabularyAndColumns ==
    Opened =>
        /\ Len(Written) >= 1 => Written[1] = Header
        /\ \A k \in 2..Len(Written) :
              /\ Len(Written[k]) = 5
              /\ IsOrderIdText(Written[k][1])
              /\ Written[k][2] \in Range(customers)
              /\ IsAmountText(Written[k][3])
              /\ Written[k][4] \in Range(statuses)
              /\ IsIsoDate(Written[k][5])

\* C6 witness: a completed call has written a row for the last customer
\* with the last status.
C6_Witness ==
    /\ pc = "done"
    /\ \E k \in 2..Len(disk.lines) :
          /\ disk.lines[k][2] = customers[Len(customers)]
          /\ disk.lines[k][4] = statuses[Len(statuses)]

\* C7: once the open or a write has failed, the call has ended in an error
\* that leaves it: the handle is not open, no confirmation is or will be
\* printed, nothing further happens (no retry, no later row), and the
\* failing step removes nothing that was already in the file.
C7_FailurePropagates ==
    [][ /\ ioFailed' => /\ pc' = "raised"
                        /\ stdout' = <<>>
                        /\ handle' # "open"
        /\ (~ioFailed /\ ioFailed') =>
              /\ Opened => IsPrefix(disk.lines, disk'.lines)
              /\ ~Opened => disk' = disk
        /\ ioFailed => UNCHANGED vars ]_vars

\* C7 witness: a row write has failed after the header and a row reached the
\* file; they are still there and nothing was printed.
C7_Witness ==
    /\ ioFailed
    /\ pc = "raised"
    /\ i >= 2
    /\ Len(disk.lines) >= 2
    /\ stdout = <<>>

\* C8: the handle is open only inside the with block of generate_orders;
\* once the call has returned or raised, the handle is not open.
C8_HandleReleased ==
    /\ pc \in {"print", "done", "raised"} => handle # "open"
    /\ handle = "open" => pc \in {"header", "loop"}
    /\ pc = "done" => handle = "closed"

\* C8 witness: a row write has failed and the handle is closed.
C8_Witness ==
    /\ pc = "raised"
    /\ handle = "closed"
    /\ i >= 1
    /\ i <= num_orders

C10_CountMatchesRows ==
    pc = "done" => ParseInt(stdout[1].count) = Len(disk.lines) - 1

====
